---- MODULE Spec2Model ----
(***************************************************************************)
(* A model of spaCy's gold Example: the projection of reference            *)
(* annotations onto a predicted tokenization through an Alignment          *)
(* (src/unnamed/part_000, the current example.pyx, and                     *)
(* src/spacy/gold/new_example.pyx, its predecessor), and the encoding of   *)
(* annotation bundles into a reference document.                           *)
(*                                                                         *)
(* Conventions.  Python's None is the empty tuple <<>> and a present value *)
(* v is <<v>>.  Token indices are 1-based here (Python's i is i+1).  A     *)
(* string is a sequence of one-character strings.  A failed call is a      *)
(* record whose err field names the exception.                             *)
(***************************************************************************)
EXTENDS Integers, Sequences, FiniteSets, TLC

VARIABLES
    x,             \* Example.x: the predicted Doc
    y,             \* Example.y: the reference Doc
    _alignment,    \* Example._alignment: None or the cached Alignment
    nComputed,     \* history: how many Alignment objects this Example built
    out,           \* the last operation and what it returned or raised
    tok_annot,     \* the token annotation dict handed to annotations2doc
    doc_annot,     \* the doc annotation dict handed to annotations2doc
    example_dict   \* the bundle handed to Example.from_dict

vars == <<x, y, _alignment, nComputed, out, tok_annot, doc_annot, example_dict>>

-----------------------------------------------------------------------------
(* Bounds *)

\* Longest text (in characters, spaces between tokens not counted) of a Doc.
MaxChars == 3
\* Longest text of the Docs an Example of the life-cycle specification holds.
MaxPoolChars == 2
\* The history counter nComputed saturates here.
MaxComputed == 2

-----------------------------------------------------------------------------
(* Python values *)

None == <<>>
Some(v) == <<v>>
Val(o) == o[1]

Ok(v) == [err |-> "", val |-> v]
Raise(e) == [err |-> e, val |-> <<>>]

RECURSIVE SumTo(_, _)
SumTo(s, k) == IF k = 0 THEN 0 ELSE s[k] + SumTo(s, k - 1)

RECURSIVE Flatten(_)
Flatten(ss) == IF ss = <<>> THEN <<>> ELSE Head(ss) \o Flatten(Tail(ss))

\* The sequences of positive lengths that add up to n: the tokenizations of
\* a text of n characters.
RECURSIVE Compositions(_)
Compositions(n) ==
    IF n = 0 THEN {<<>>}
    ELSE UNION {{<<k>> \o c : c \in Compositions(n - k)} : k \in 1..n}

\* str.isspace(): non-empty and every character is whitespace.
isspace(s) == Len(s) > 0 /\ \A k \in 1..Len(s) : s[k] = " "

-----------------------------------------------------------------------------
(* Doc: a sequence of tokens.  A token carries its text, its trailing      *)
(* whitespace flag and the attribute columns the Example reads.            *)

Token(text, ws, tag, sent_start, ent_iob, ent_type, head, dep) ==
    [text |-> text, ws |-> ws, tag |-> tag, sent_start |-> sent_start,
     ent_iob |-> ent_iob, ent_type |-> ent_type, head |-> head, dep |-> dep]

\* Token k of the tokenization seg of the text base (sp: a space follows
\* character p of the text), without annotations.
PlainToken(base, sp, seg, k) ==
    LET s == SumTo(seg, k - 1) + 1
        e == SumTo(seg, k)
        text == Flatten([p \in 1..(e - s + 1) |->
                    <<base[s + p - 1]>> \o
                    (IF s + p - 1 < e /\ sp[s + p - 1] THEN <<" ">> ELSE <<>>)])
    IN  Token(text, sp[e], 0, 0, 0, "", k, "")

PlainDoc(base, sp, seg) == [k \in 1..Len(seg) |-> PlainToken(base, sp, seg, k)]

\* token.orth_ for each token
Words(doc) == [k \in 1..Len(doc) |-> doc[k].text]

\* token.text_with_ws
TextWithWs(tok) == tok.text \o (IF tok.ws THEN <<" ">> ELSE <<>>)

\* Doc.text
DocText(doc) == Flatten([k \in 1..Len(doc) |-> TextWithWs(doc[k])])

\* token.idx, 0-based character offset of token k in Doc.text
Idx(doc, k) == SumTo([j \in 1..Len(doc) |-> Len(TextWithWs(doc[j]))], k - 1)

\* Doc.to_array([field]) for the fields the Example projects
to_array(doc, field) ==
    [k \in 1..Len(doc) |->
        CASE field = "TAG" -> doc[k].tag
          [] field = "SENT_START" -> doc[k].sent_start
          [] field = "ENT_IOB" -> doc[k].ent_iob
          [] OTHER -> 0]

-----------------------------------------------------------------------------
(* Alignment(spacy_words, gold_words): the index correspondence of two     *)
(* tokenizations of one text.  The aligner is gold/align.pyx, outside the  *)
(* sources at hand; it is modelled from the data model's description: a    *)
(* predicted index has a 1:1 reference mapping (cand_to_gold), or is a key *)
(* of i2j_multi (several predicted tokens make up one reference token), or *)
(* is unaligned, and symmetrically for reference indices.  Words are       *)
(* compared with their spaces removed.                                     *)

RECURSIVE StripSpaces(_)
StripSpaces(s) ==
    IF s = <<>> THEN <<>>
    ELSE (IF Head(s) = " " THEN <<>> ELSE <<Head(s)>>) \o StripSpaces(Tail(s))

NormLens(words) == [k \in 1..Len(words) |-> Len(StripSpaces(words[k]))]

\* Tokens i of a and j of b cover the same characters (la, lb: the lengths
\* of a's and b's words without their spaces).  Whitespace-only tokens are
\* empty then: two of them match when they are the same text and the
\* same one in a row.
SameToken(a, la, i, b, lb, j) ==
    LET rank(l, k) == Cardinality({m \in 1..(k - 1) :
                          l[m] = 0 /\ SumTo(l, m) = SumTo(l, k)})
    IN  /\ SumTo(la, i - 1) = SumTo(lb, j - 1)
        /\ la[i] = lb[j]
        /\ la[i] = 0 => (a[i] = b[j] /\ rank(la, i) = rank(lb, j))

\* Token i of a lies inside the longer token j of b.
InsideToken(la, i, lb, j) ==
    /\ la[i] > 0
    /\ la[i] < lb[j]
    /\ SumTo(lb, j - 1) <= SumTo(la, i - 1)
    /\ SumTo(la, i) <= SumTo(lb, j)

OneToOne(a, b) ==
    LET la == NormLens(a)
        lb == NormLens(b)
    IN  [i \in 1..Len(a) |->
            IF \E j \in 1..Len(b) : SameToken(a, la, i, b, lb, j)
            THEN Some(CHOOSE j \in 1..Len(b) : SameToken(a, la, i, b, lb, j))
            ELSE None]

Multi(la, lb) ==
    LET keys == {i \in 1..Len(la) : \E j \in 1..Len(lb) : InsideToken(la, i, lb, j)}
    IN  [i \in keys |-> CHOOSE j \in 1..Len(lb) : InsideToken(la, i, lb, j)]

Alignment(spacy_words, gold_words) ==
    LET la == NormLens(spacy_words)
        lb == NormLens(gold_words)
    IN  IF Flatten([k \in 1..Len(spacy_words) |-> StripSpaces(spacy_words[k])])
           # Flatten([k \in 1..Len(gold_words) |-> StripSpaces(gold_words[k])])
        THEN Raise("AlignmentError")
        ELSE Ok([cand_to_gold |-> OneToOne(spacy_words, gold_words),
                 gold_to_cand |-> OneToOne(gold_words, spacy_words),
                 i2j_multi |-> Multi(la, lb),
                 j2i_multi |-> Multi(lb, la)])

-----------------------------------------------------------------------------
(* Example.alignment: the cached Alignment, built on the first access that *)
(* finds none.  Returns the exception if the aligner raised, the Alignment *)
(* handed to the caller, the new value of _alignment, and whether an       *)
(* Alignment was built.                                                    *)

RecomputingAlignment(predicted, reference, cached) ==
    LET spacy_words == Words(predicted)
        gold_words == IF Words(reference) = <<>> THEN spacy_words
                      ELSE Words(reference)
        built == Alignment(spacy_words, gold_words)
    IN  IF built.err # ""
        THEN [err |-> built.err, al |-> None, cache |-> cached, computed |-> FALSE]
        ELSE [err |-> "", al |-> Some(built.val), cache |-> Some(built.val),
              computed |-> TRUE]

alignment(predicted, reference, cached) ==
    IF cached = None
    THEN LET spacy_words == Words(predicted)
             gold_words == IF Words(reference) = <<>> THEN spacy_words
                           ELSE Words(reference)
             built == Alignment(spacy_words, gold_words)
         IN  IF built.err # ""
             THEN [err |-> built.err, al |-> None, cache |-> cached,
                   computed |-> FALSE]
             ELSE [err |-> "", al |-> Some(built.val), cache |-> Some(built.val),
                   computed |-> TRUE]
    ELSE [err |-> "", al |-> cached, cache |-> cached, computed |-> FALSE]

-----------------------------------------------------------------------------
(* Example.get_aligned(field), part_000 lines 86-109.  al is the Alignment *)
(* the alignment property returned.  The loop runs over cand_to_gold;      *)
(* predicted[i] or gold_values[j] out of range raises IndexError.          *)

\* The loop indexes out of range (only with an Alignment of other Docs).
AlignedIndexError(predicted, reference, al) ==
    \E i \in 1..Len(al.cand_to_gold) :
        \/ i > Len(predicted)
        \/ /\ al.cand_to_gold[i] # None
           /\ Val(al.cand_to_gold[i]) > Len(reference)
        \/ /\ al.cand_to_gold[i] = None
           /\ i \in DOMAIN al.i2j_multi
           /\ al.i2j_multi[i] > Len(reference)

\* One round of the loop of NewExample.get_aligned (new_example.pyx lines
\* 86-95): if / elif / else.
NewAlignedValue(predicted, al, gold_values, i) ==
    LET gold_i == al.cand_to_gold[i]
    IN  IF isspace(predicted[i].text) THEN None
        ELSE IF gold_i = None
             THEN IF i \in DOMAIN al.i2j_multi
                  THEN Some(gold_values[al.i2j_multi[i]])
                  ELSE None
             ELSE Some(gold_values[Val(gold_i)])

\* A variant that drops the multi-map fallback.
AlignedValueNoMulti(predicted, al, gold_values, i) ==
    LET gold_i == al.cand_to_gold[i]
    IN  IF gold_i = None THEN None ELSE Some(gold_values[Val(gold_i)])

\* One round of the loop of Example.get_aligned (part_000 lines 97-106):
\* the whitespace test is an `if` of its own, and the if / else on gold_i
\* that follows assigns output[i] again in both branches.
AlignedValue(predicted, al, gold_values, i) ==
    LET gold_i == al.cand_to_gold[i]
        output0 == None                \* output = [None] * len(predicted)
        output1 == IF isspace(predicted[i].text) THEN None ELSE output0
        output2 == IF gold_i = None
                   THEN IF i \in DOMAIN al.i2j_multi
                        THEN Some(gold_values[al.i2j_multi[i]])
                        ELSE None
                   ELSE Some(gold_values[Val(gold_i)])
    IN  output2

get_aligned(predicted, reference, al, field) ==
    LET gold_values == to_array(reference, field)
    IN  IF AlignedIndexError(predicted, reference, al) THEN Raise("IndexError")
        ELSE Ok([i \in 1..Len(predicted) |->
                    IF i <= Len(al.cand_to_gold)
                    THEN AlignedValue(predicted, al, gold_values, i)
                    ELSE None])

\* NewExample.get_aligned (new_example.pyx lines 75-96): output starts
\* empty and gets one entry per entry of cand_to_gold.
NewExample_get_aligned(predicted, reference, al, field) ==
    LET gold_values == to_array(reference, field)
    IN  IF AlignedIndexError(predicted, reference, al) THEN Raise("IndexError")
        ELSE Ok([i \in 1..Len(al.cand_to_gold) |->
                    NewAlignedValue(predicted, al, gold_values, i)])

-----------------------------------------------------------------------------
(* Sentences of a Doc (Doc.is_sentenced, Doc.sents; tokens/doc.pyx is      *)
(* outside the sources at hand).  A sentence starts at the first token and *)
(* at every later token whose sent_start is 1.                             *)

is_sentenced(doc) ==
    \/ Len(doc) < 2
    \/ \E i \in 2..Len(doc) : doc[i].sent_start \in {1, -1}

\* The sentences as <<first token, last token>> pairs, in order.
RECURSIVE SentsFrom(_, _, _)
SentsFrom(doc, start, i) ==
    IF i > Len(doc) THEN <<<<start, Len(doc)>>>>
    ELSE IF doc[i].sent_start = 1
         THEN <<<<start, i - 1>>>> \o SentsFrom(doc, i, i + 1)
         ELSE SentsFrom(doc, start, i + 1)

sents(doc) == IF Len(doc) = 0 THEN <<>> ELSE SentsFrom(doc, 1, 2)

-----------------------------------------------------------------------------
(* Example.split_sents, part_000 lines 185-203.  A sub-Example is the pair *)
(* of the predicted slice and the reference sentence, each a pair          *)
(* <<first token, last token>> (an empty slice has last = first - 1).      *)

\* list.index(1, start): the first position >= start that holds 1, or 0
\* where Python raises ValueError.
IndexOfOne(sent_starts, start) ==
    IF \E k \in start..Len(sent_starts) : sent_starts[k] = Some(1)
    THEN CHOOSE k \in start..Len(sent_starts) :
            /\ sent_starts[k] = Some(1)
            /\ \A m \in start..(k - 1) : sent_starts[m] # Some(1)
    ELSE 0

\* The loop over reference.sents from sentence s on, pred_start being the
\* first token of the next predicted slice.
RECURSIVE SplitLoop(_, _, _, _)
SplitLoop(sent_starts, ref_sents, s, pred_start) ==
    IF s > Len(ref_sents) THEN Ok(<<>>)
    ELSE LET pred_end == IndexOfOne(sent_starts, pred_start + 1)
             rest == SplitLoop(sent_starts, ref_sents, s + 1, pred_end)
         IN  IF pred_end = 0 THEN Raise("ValueError")
             ELSE IF rest.err # "" THEN rest
             ELSE Ok(<<[pred |-> <<pred_start, pred_end - 1>>,
                        ref |-> ref_sents[s]]>> \o rest.val)

\* The sentenced branch of split_sents, given get_aligned("SENT_START").
split_sents(predicted, reference, aligned) ==
    IF aligned.err # "" THEN aligned
    ELSE SplitLoop(Append(aligned.val, Some(1)), sents(reference), 1, 1)

\* NewExample.split_sents (new_example.pyx lines 118-139), sentenced branch:
\* refuses different tokenizations, and slices predicted[start : end + 1].
NewExample_split_sents(predicted, reference) ==
    IF Words(predicted) # Words(reference) THEN Raise("NotImplementedError")
    ELSE Ok([s \in 1..Len(sents(reference)) |->
              [pred |-> <<sents(reference)[s][1],
                          IF sents(reference)[s][2] + 1 <= Len(predicted)
                          THEN sents(reference)[s][2] + 1 ELSE Len(predicted)>>,
               ref |-> sents(reference)[s]]])

\* The predicted tokens of the sub-Examples, concatenated in output order.
PredictedOf(predicted, subs) ==
    Flatten([s \in 1..Len(subs) |->
                SubSeq(predicted, subs[s].pred[1], subs[s].pred[2])])

-----------------------------------------------------------------------------
(* Example.get_aligned_parse, part_000 lines 111-126.                      *)

\* nonproj.projectivize(heads, deps), outside the sources at hand: the
\* arcs that cross are lifted to the grandparent, the shortest first, until
\* none crosses, and the label of a lifted token is decorated with the
\* label of its former head.  A label is <<dep>>, or <<dep, "||", head dep>>
\* when decorated.

\* The tokens above k, walking at most cnt heads up.
RECURSIVE Ancestors(_, _, _)
Ancestors(k, heads, cnt) ==
    IF heads[k] = k \/ cnt = 0 THEN {}
    ELSE {heads[k]} \cup Ancestors(heads[k], heads, cnt - 1)

\* The arc to tokenid spans a token its head does not dominate.
IsNonprojArc(tokenid, heads) ==
    LET head == heads[tokenid]
        lo == IF head < tokenid THEN head ELSE tokenid
        hi == IF head < tokenid THEN tokenid ELSE head
    IN  /\ head # tokenid
        /\ \E k \in (lo + 1)..(hi - 1) : head \notin Ancestors(k, heads, Len(heads))

ArcSize(tokenid, heads) ==
    IF heads[tokenid] < tokenid THEN tokenid - heads[tokenid]
    ELSE heads[tokenid] - tokenid

RECURSIVE Lifted(_)
Lifted(heads) ==
    LET nonproj == {t \in 1..Len(heads) : IsNonprojArc(t, heads)}
    IN  IF nonproj = {} THEN heads
        ELSE LET tokenid == CHOOSE t \in nonproj : \A u \in nonproj :
                                \/ ArcSize(t, heads) < ArcSize(u, heads)
                                \/ ArcSize(t, heads) = ArcSize(u, heads) /\ t <= u
                 head == heads[tokenid]
                 ghead == heads[head]
             IN  Lifted([heads EXCEPT ![tokenid] =
                            IF head # ghead THEN ghead ELSE tokenid])

projectivize(heads, deps) ==
    LET proj_heads == Lifted(heads)
    IN  [heads |-> proj_heads,
         deps |-> [t \in 1..Len(heads) |->
                     IF heads[t] # proj_heads[t]
                     THEN <<deps[t], "||", deps[heads[t]]>>
                     ELSE <<deps[t]>>]]

ParseIndexError(predicted, reference, al, heads) ==
    \E cand_i \in 1..Len(predicted) :
        \/ cand_i > Len(al.cand_to_gold)
        \/ /\ al.cand_to_gold[cand_i] # None
           /\ \/ Val(al.cand_to_gold[cand_i]) > Len(reference)
              \/ heads[Val(al.cand_to_gold[cand_i])] > Len(al.gold_to_cand)

\* A variant that copies the label of every aligned token, also when the
\* image of its head is unaligned.
LabelsOfAllAligned(predicted, reference, al) ==
    LET proj == projectivize([k \in 1..Len(reference) |-> reference[k].head],
                             [k \in 1..Len(reference) |-> reference[k].dep])
        gold_head(cand_i) ==
            al.gold_to_cand[proj.heads[Val(al.cand_to_gold[cand_i])]]
    IN  IF ParseIndexError(predicted, reference, al, proj.heads)
        THEN Raise("IndexError")
        ELSE Ok([aligned_heads |->
                    [cand_i \in 1..Len(predicted) |->
                        IF al.cand_to_gold[cand_i] # None
                        THEN gold_head(cand_i) ELSE None],
                 aligned_deps |->
                    [cand_i \in 1..Len(predicted) |->
                        IF al.cand_to_gold[cand_i] # None
                        THEN Some(proj.deps[Val(al.cand_to_gold[cand_i])])
                        ELSE None]])

get_aligned_parse(predicted, reference, al) ==
    LET proj == projectivize([k \in 1..Len(reference) |-> reference[k].head],
                             [k \in 1..Len(reference) |-> reference[k].dep])
        heads == proj.heads
        deps == proj.deps
        gold_head(cand_i) == al.gold_to_cand[heads[Val(al.cand_to_gold[cand_i])]]
        found(cand_i) == /\ al.cand_to_gold[cand_i] # None
                         /\ gold_head(cand_i) # None
    IN  IF ParseIndexError(predicted, reference, al, heads)
        THEN Raise("IndexError")
        ELSE Ok([aligned_heads |->
                    [cand_i \in 1..Len(predicted) |->
                        IF found(cand_i) THEN gold_head(cand_i) ELSE None],
                 aligned_deps |->
                    [cand_i \in 1..Len(predicted) |->
                        IF found(cand_i)
                        THEN Some(deps[Val(al.cand_to_gold[cand_i])])
                        ELSE None]])

-----------------------------------------------------------------------------
(* Strings and spans of a Doc, as get_aligned_ner uses them.               *)

\* text[p .. p + Len(sub) - 1] = sub
MatchAt(text, sub, p) ==
    /\ p + Len(sub) - 1 <= Len(text)
    /\ \A k \in 1..Len(sub) : text[p + k - 1] = sub[k]

\* str.count(sub) from position p on: occurrences that do not overlap.
RECURSIVE CountFrom(_, _, _)
CountFrom(text, sub, p) ==
    IF p + Len(sub) - 1 > Len(text) THEN 0
    ELSE IF MatchAt(text, sub, p)
         THEN 1 + CountFrom(text, sub, p + Len(sub))
         ELSE CountFrom(text, sub, p + 1)

count(text, sub) == CountFrom(text, sub, 1)

\* str.index(sub): the 0-based offset of the first occurrence.
index(text, sub) ==
    (CHOOSE p \in 1..Len(text) :
        /\ MatchAt(text, sub, p)
        /\ \A q \in 1..(p - 1) : ~MatchAt(text, sub, q)) - 1

\* Span.text of tokens first..last: the text with the last token's
\* trailing whitespace cut.
SpanText(doc, first, last) ==
    Flatten([k \in 1..(last - first + 1) |->
                IF first + k - 1 < last THEN TextWithWs(doc[first + k - 1])
                ELSE doc[last].text])

\* Doc.char_span(start_char, end_char): the tokens <<first, last>> when the
\* offsets are a token's start and a token's end, else None.
char_span(doc, start_char, end_char) ==
    LET firsts == {k \in 1..Len(doc) : Idx(doc, k) = start_char}
        lasts == {k \in 1..Len(doc) : Idx(doc, k) + Len(doc[k].text) = end_char}
    IN  IF firsts = {} \/ lasts = {} THEN None
        ELSE LET first == CHOOSE k \in firsts : TRUE
                 last == CHOOSE k \in lasts : TRUE
             IN  IF first <= last THEN Some(<<first, last>>) ELSE None

\* Doc.ents: the entities as [first, last, label], from the ent_iob column
\* (3 begins an entity, 1 continues it, 2 is outside, 0 is missing).
RECURSIVE EntEnd(_, _)
EntEnd(doc, k) ==
    IF k < Len(doc) /\ doc[k + 1].ent_iob = 1 THEN EntEnd(doc, k + 1) ELSE k

RECURSIVE EntsFrom(_, _)
EntsFrom(doc, k) ==
    IF k > Len(doc) THEN <<>>
    ELSE IF doc[k].ent_iob = 3
         THEN <<[first |-> k, last |-> EntEnd(doc, k), label |-> doc[k].ent_type]>>
              \o EntsFrom(doc, EntEnd(doc, k) + 1)
         ELSE EntsFrom(doc, k + 1)

ents(doc) == EntsFrom(doc, 1)

\* biluo_tags_from_offsets(doc, spans, missing="O") for spans that lie on
\* token boundaries (gold/iob_utils.py, outside the sources at hand): B, I,
\* L or U with the label inside a span, "O" elsewhere; entities that share
\* a token raise ValueError.
SpansOverlap(spans) ==
    \E a, b \in 1..Len(spans) :
        /\ a # b
        /\ spans[a].first <= spans[b].last
        /\ spans[b].first <= spans[a].last

BiluoTag(spans, i) ==
    IF \E e \in 1..Len(spans) : spans[e].first <= i /\ i <= spans[e].last
    THEN LET sp == spans[CHOOSE e \in 1..Len(spans) :
                            spans[e].first <= i /\ i <= spans[e].last]
         IN  <<(IF sp.first = sp.last THEN "U"
                ELSE IF i = sp.first THEN "B"
                ELSE IF i = sp.last THEN "L" ELSE "I"), sp.label>>
    ELSE <<"O">>

biluo_tags_from_offsets(doc, spans) ==
    IF SpansOverlap(spans) THEN Raise("ValueError")
    ELSE Ok([i \in 1..Len(doc) |-> Some(BiluoTag(spans, i))])

-----------------------------------------------------------------------------
(* Example.get_aligned_ner, part_000 lines 128-155.                        *)

\* One reference entity in the predicted frame (lines 133-144): a list of
\* no or one span, or the exception an index out of range raises.
AlignedEnt(predicted, reference, al, y_ent) ==
    IF y_ent.first > Len(al.gold_to_cand) \/ y_ent.last > Len(al.gold_to_cand)
    THEN Raise("IndexError")
    ELSE LET x_start == al.gold_to_cand[y_ent.first]
             x_end == al.gold_to_cand[y_ent.last]
             x_text == DocText(predicted)
             ent_text == SpanText(reference, y_ent.first, y_ent.last)
         IN  IF x_start # None /\ x_end # None
             THEN IF Val(x_start) <= Val(x_end) /\ Val(x_end) <= Len(predicted)
                  THEN Ok(<<[first |-> Val(x_start), last |-> Val(x_end),
                             label |-> y_ent.label]>>)
                  ELSE Raise("IndexError")
             ELSE IF count(x_text, ent_text) = 1
             THEN LET start_char == index(x_text, ent_text)
                      end_char == start_char + Len(ent_text)
                      x_span == char_span(predicted, start_char, end_char)
                  IN  IF x_span # None
                      THEN Ok(<<[first |-> Val(x_span)[1], last |-> Val(x_span)[2],
                                 label |-> y_ent.label]>>)
                      ELSE Ok(<<>>)
             ELSE Ok(<<>>)

\* x_ents: the loop over y_ents = reference.ents from entity e on.
RECURSIVE AlignedEntsFrom(_, _, _, _, _)
AlignedEntsFrom(predicted, reference, al, y_ents, e) ==
    IF e > Len(y_ents) THEN Ok(<<>>)
    ELSE LET one == AlignedEnt(predicted, reference, al, y_ents[e])
             rest == AlignedEntsFrom(predicted, reference, al, y_ents, e + 1)
         IN  IF one.err # "" THEN one
             ELSE IF rest.err # "" THEN rest
             ELSE Ok(one.val \o rest.val)

AlignedEnts(predicted, reference, al) ==
    AlignedEntsFrom(predicted, reference, al, ents(reference), 1)

\* A variant of the last loop that never marks a token unknown.
NoUnknowns(reference, al) == {}

\* The predicted tokens the last loop (lines 150-154) sets to None: those
\* gold_to_cand gives for a reference token whose ent_iob is 0.
Unknowns(reference, al) ==
    {Val(al.gold_to_cand[g]) : g \in {g \in 1..Len(reference) :
        /\ reference[g].ent_iob = 0
        /\ g <= Len(al.gold_to_cand)
        /\ al.gold_to_cand[g] # None}}

get_aligned_ner(predicted, reference, al) ==
    LET x_ents == AlignedEnts(predicted, reference, al)
        x_tags == IF x_ents.err # "" THEN x_ents
                  ELSE biluo_tags_from_offsets(predicted, x_ents.val)
        unknowns == Unknowns(reference, al)
    IN  IF x_tags.err # "" THEN x_tags
        ELSE IF \/ \E g \in 1..Len(reference) :
                      reference[g].ent_iob = 0 /\ g > Len(al.gold_to_cand)
                \/ \E c \in unknowns : c > Len(predicted)
             THEN Raise("IndexError")
             ELSE Ok([i \in 1..Len(predicted) |->
                        IF i \in unknowns THEN None ELSE x_tags.val[i]])

-----------------------------------------------------------------------------
(* The operations of one Example as actions.  Each reads the alignment     *)
(* property first, as the code does.                                       *)

NoOut == [op |-> "", arg |-> "", err |-> "", val |-> <<>>]

Result(op, arg, r) == [op |-> op, arg |-> arg, err |-> r.err, val |-> r.val]

\* What reading the alignment property does to the Example.
Touch(a) ==
    /\ _alignment' = a.cache
    /\ nComputed' = IF a.computed /\ nComputed < MaxComputed
                    THEN nComputed + 1 ELSE nComputed

Fields == {"TAG", "SENT_START"}

GetAligned ==
    \E field \in Fields :
        LET a == alignment(x, y, _alignment)
            r == IF a.err # "" THEN Raise(a.err)
                 ELSE get_aligned(x, y, Val(a.al), field)
        IN  /\ Touch(a)
            /\ out' = Result("get_aligned", field, r)
            /\ UNCHANGED <<x, y, tok_annot, doc_annot, example_dict>>

NewGetAligned ==
    \E field \in Fields :
        LET a == alignment(x, y, _alignment)
            r == IF a.err # "" THEN Raise(a.err)
                 ELSE NewExample_get_aligned(x, y, Val(a.al), field)
        IN  /\ Touch(a)
            /\ out' = Result("NewExample.get_aligned", field, r)
            /\ UNCHANGED <<x, y, tok_annot, doc_annot, example_dict>>

\* return [self]
Self == <<[pred |-> <<1, Len(x)>>, ref |-> <<1, Len(y)>>]>>

\* A variant of split_sents that asks for the aligned SENT_START column
\* before it looks at reference.is_sentenced.
SplitSentsAligningFirst ==
    /\ LET a == alignment(x, y, _alignment)
           aligned == IF a.err # "" THEN Raise(a.err)
                      ELSE get_aligned(x, y, Val(a.al), "SENT_START")
       IN  /\ Touch(a)
           /\ out' = IF ~is_sentenced(y)
                     THEN Result("split_sents", "self", Ok(Self))
                     ELSE Result("split_sents", "", split_sents(x, y, aligned))
    /\ UNCHANGED <<x, y, tok_annot, doc_annot, example_dict>>

SplitSents ==
    /\ IF ~is_sentenced(y)
       THEN /\ out' = Result("split_sents", "self", Ok(Self))
            /\ UNCHANGED <<_alignment, nComputed>>
       ELSE LET a == alignment(x, y, _alignment)
                aligned == IF a.err # "" THEN Raise(a.err)
                           ELSE get_aligned(x, y, Val(a.al), "SENT_START")
            IN  /\ Touch(a)
                /\ out' = Result("split_sents", "", split_sents(x, y, aligned))
    /\ UNCHANGED <<x, y, tok_annot, doc_annot, example_dict>>

NewSplitSents ==
    /\ out' = IF ~is_sentenced(y)
              THEN Result("NewExample.split_sents", "self", Ok(Self))
              ELSE Result("NewExample.split_sents", "", NewExample_split_sents(x, y))
    /\ UNCHANGED <<x, y, _alignment, nComputed, tok_annot, doc_annot, example_dict>>

GetAlignedParse ==
    LET a == alignment(x, y, _alignment)
        r == IF a.err # "" THEN Raise(a.err)
             ELSE get_aligned_parse(x, y, Val(a.al))
    IN  /\ Touch(a)
        /\ out' = Result("get_aligned_parse", "", r)
        /\ UNCHANGED <<x, y, tok_annot, doc_annot, example_dict>>

GetAlignedNer ==
    LET a == alignment(x, y, _alignment)
        r == IF a.err # "" THEN Raise(a.err)
             ELSE get_aligned_ner(x, y, Val(a.al))
    IN  /\ Touch(a)
        /\ out' = Result("get_aligned_ner", "", r)
        /\ UNCHANGED <<x, y, tok_annot, doc_annot, example_dict>>

-----------------------------------------------------------------------------
(* SpecAlign: an Example over two tokenizations of one text, built without *)
(* an alignment; the reference carries tags and sentence starts.           *)

AlignAlphabet == {"a", " "}
SentStartValues == {0, 1}

ReferenceDoc(base, sp, seg, ss) ==
    [k \in 1..Len(seg) |->
        [PlainToken(base, sp, seg, k) EXCEPT !.tag = k, !.sent_start = ss[k]]]

NoExampleInput ==
    /\ tok_annot = <<>>
    /\ doc_annot = <<>>
    /\ example_dict = <<>>

InitAlign ==
    \E n \in 0..MaxChars :
      \E base \in [1..n -> AlignAlphabet], segX \in Compositions(n),
         segY \in Compositions(n) :
        \E ss \in [1..Len(segY) -> SentStartValues] :
            /\ x = PlainDoc(base, [p \in 1..n |-> FALSE], segX)
            /\ y = ReferenceDoc(base, [p \in 1..n |-> FALSE], segY, ss)
            /\ _alignment = None
            /\ nComputed = 0
            /\ out = NoOut
            /\ NoExampleInput

NextAlign == GetAligned \/ NewGetAligned \/ SplitSents \/ NewSplitSents

SpecAlign == InitAlign /\ [][NextAlign]_vars

-----------------------------------------------------------------------------
(* Claims about get_aligned and split_sents, under SpecAlign.              *)

\* The Alignment the last operation used: the cached one.
Al == Val(_alignment)

FullyUnaligned(i) ==
    /\ Al.cand_to_gold[i] = None
    /\ i \notin DOMAIN Al.i2j_multi

\* C1: for every predicted token i, get_aligned(field)[i] is None if and
\* only if token i is whitespace-only or fully unaligned (no 1:1 mapping and
\* not a key of i2j_multi); so a whitespace-only token yields None even when
\* the alignment maps it to a reference token.
C1_NoneIffWhitespaceOrUnaligned ==
    (out.op = "get_aligned" /\ out.err = "") =>
        \A i \in 1..Len(x) :
            (out.val[i] = None) <=> (isspace(x[i].text) \/ FullyUnaligned(i))

\* C2: the predicted slices of the sub-Examples split_sents returns,
\* concatenated in output order, are the predicted token sequence: nothing
\* dropped, duplicated or reordered, whatever the two tokenizations.
C2_SplitSentsKeepsPredicted ==
    out.op = "split_sents" =>
        /\ out.err = ""
        /\ PredictedOf(x, out.val) = x

\* C7: for every predicted token i that is not whitespace-only,
\* get_aligned(field)[i] is the reference value at cand_to_gold[i] when i has
\* a 1:1 mapping, and otherwise the reference value at i2j_multi[i] when i
\* is a key of i2j_multi; so two predicted tokens that i2j_multi sends to one
\* reference token get the same value, and not None.
C7_AlignedCopiesReferenceValue ==
    (out.op = "get_aligned" /\ out.err = "") =>
        LET gold_values == to_array(y, out.arg)
        IN  /\ \A i \in 1..Len(x) :
                  ~isspace(x[i].text) =>
                      /\ Al.cand_to_gold[i] # None =>
                            out.val[i] = Some(gold_values[Val(Al.cand_to_gold[i])])
                      /\ (Al.cand_to_gold[i] = None /\ i \in DOMAIN Al.i2j_multi) =>
                            out.val[i] = Some(gold_values[Al.i2j_multi[i]])
            /\ \A i, k \in DOMAIN Al.i2j_multi :
                  (/\ Al.i2j_multi[i] = Al.i2j_multi[k]
                   /\ Al.cand_to_gold[i] = None /\ Al.cand_to_gold[k] = None
                   /\ ~isspace(x[i].text) /\ ~isspace(x[k].text)) =>
                      (out.val[i] = out.val[k] /\ out.val[i] # None)

\* C7's case: predicted ["a", "a"] against the one reference token "aa"; both
\* predicted tokens are keys of i2j_multi and get_aligned("TAG") has run.
C7_Witness ==
    /\ out.op = "get_aligned" /\ out.arg = "TAG" /\ out.err = ""
    /\ Words(x) = <<<<"a">>, <<"a">>>>
    /\ Words(y) = <<<<"a", "a">>>>
    /\ DOMAIN Al.i2j_multi = {1, 2}
    /\ out.val = <<Some(1), Some(1)>>

-----------------------------------------------------------------------------
(* SpecNer: an Example over two tokenizations of one text whose reference  *)
(* carries entity annotations.                                             *)

NerAlphabet == {"a", "b"}

\* The ent_iob columns Doc.ents accepts: 1 (I) only after 3 (B) or 1.
EntIobColumns(n) ==
    {c \in [1..n -> 0..3] :
        \A k \in 1..n : c[k] = 1 => (k > 1 /\ c[k - 1] \in {1, 3})}

\* The label of the entity token k belongs to: by where the entity begins.
RECURSIVE EntLabel(_, _)
EntLabel(c, k) ==
    IF c[k] = 3 THEN (IF k % 2 = 1 THEN "GPE" ELSE "ORG")
    ELSE IF c[k] = 1 THEN EntLabel(c, k - 1)
    ELSE ""

NerDoc(base, sp, seg, c) ==
    [k \in 1..Len(seg) |->
        [PlainToken(base, sp, seg, k) EXCEPT !.ent_iob = c[k],
                                             !.ent_type = EntLabel(c, k)]]

InitNer ==
    \E n \in 1..MaxChars :
      \E base \in [1..n -> NerAlphabet], segX \in Compositions(n),
         segY \in Compositions(n), spaced \in BOOLEAN :
        \E c \in EntIobColumns(Len(segY)) :
            /\ x = PlainDoc(base, [p \in 1..n |-> spaced], segX)
            /\ y = NerDoc(base, [p \in 1..n |-> spaced], segY, c)
            /\ _alignment = None
            /\ nComputed = 0
            /\ out = NoOut
            /\ NoExampleInput

NextNer == GetAlignedNer

SpecNer == InitNer /\ [][NextNer]_vars

\* The spans get_aligned_ner recovered in the predicted frame.
Recovered == AlignedEnts(x, y, Al).val

\* Reference entity e did not make it into the predicted frame.
Unresolved(e) == AlignedEnt(x, y, Al, ents(y)[e]).val = <<>>

\* C10 as stated: the tokens get_aligned_ner marks None are exactly the
\* predicted tokens whose aligned reference token began a gold entity that
\* failed to resolve; every other token keeps the tag of the recovered spans.
C10_UnknownIffUnresolvedEntity ==
    (out.op = "get_aligned_ner" /\ out.err = "") =>
        \A i \in 1..Len(x) :
            /\ (out.val[i] = None) <=>
                  \E e \in 1..Len(ents(y)) :
                      /\ Al.gold_to_cand[ents(y)[e].first] = Some(i)
                      /\ Unresolved(e)
            /\ out.val[i] # None => out.val[i] = Some(BiluoTag(Recovered, i))

\* C10, amended: the tokens get_aligned_ner marks None are exactly the
\* predicted tokens gold_to_cand gives for a reference token that has no
\* entity annotation (ent_iob 0); every other token keeps the tag of the
\* recovered spans: an entity tag inside one, "O" elsewhere, also where a
\* gold entity failed to resolve.
C10_UnknownIffNoGoldLabel ==
    (out.op = "get_aligned_ner" /\ out.err = "") =>
        \A i \in 1..Len(x) :
            /\ (out.val[i] = None) <=>
                  \E g \in 1..Len(y) :
                      y[g].ent_iob = 0 /\ Al.gold_to_cand[g] = Some(i)
            /\ out.val[i] # None =>
                  /\ out.val[i] = Some(BiluoTag(Recovered, i))
                  /\ (out.val[i] = Some(<<"O">>)) <=>
                        ~\E e \in 1..Len(Recovered) :
                            Recovered[e].first <= i /\ i <= Recovered[e].last

\* C10's case: get_aligned_ner returned tags of all three kinds: None for a
\* reference token without annotation, an entity tag, and "O".
C10_Witness ==
    /\ out.op = "get_aligned_ner" /\ out.err = ""
    /\ \E i \in 1..Len(x) :
          /\ out.val[i] = None
          /\ \E g \in 1..Len(y) : y[g].ent_iob = 0 /\ Al.gold_to_cand[g] = Some(i)
    /\ \E i \in 1..Len(x) : out.val[i] = Some(<<"O">>)
    /\ \E i \in 1..Len(x) : out.val[i] # None /\ out.val[i] # Some(<<"O">>)

-----------------------------------------------------------------------------
(* Spec: the life of one Example.  Its Docs come from a pool of            *)
(* tokenizations of short texts, bare or annotated; it is built with or    *)
(* without an alignment; then any operation may follow any other,          *)
(* including the setters of predicted and reference.                       *)

AnnotatedDoc(base, sp, seg) ==
    [k \in 1..Len(seg) |->
        [PlainToken(base, sp, seg, k) EXCEPT !.tag = k, !.sent_start = 1,
                                             !.ent_iob = 2, !.dep = "dep"]]

DocPool ==
    UNION {UNION {{PlainDoc([p \in 1..n |-> "a"], [p \in 1..n |-> FALSE], seg),
                   AnnotatedDoc([p \in 1..n |-> "a"], [p \in 1..n |-> FALSE], seg)}
                  : seg \in Compositions(n)} : n \in 0..MaxPoolChars}

\* The alignments a caller can hand to Example.__init__.
AlignmentPool ==
    {Alignment(Words(p[1]), Words(p[2])).val :
        p \in {q \in DocPool \X DocPool :
                 Alignment(Words(q[1]), Words(q[2])).err = ""}}

Init ==
    /\ x \in DocPool
    /\ y \in DocPool
    /\ _alignment \in {None} \cup {Some(al) : al \in AlignmentPool}
    /\ nComputed = 0
    /\ out = NoOut
    /\ NoExampleInput

\* A read of the alignment property itself.
ReadAlignment ==
    LET a == alignment(x, y, _alignment)
    IN  /\ Touch(a)
        /\ out' = Result("alignment", "", [err |-> a.err, val |-> a.al])
        /\ UNCHANGED <<x, y, tok_annot, doc_annot, example_dict>>

\* predicted.__set__ (part_000 lines 48-49)
SetPredicted ==
    \E doc \in DocPool :
        /\ x' = doc
        /\ out' = Result("predicted.__set__", "", Ok(<<>>))
        /\ UNCHANGED <<y, _alignment, nComputed, tok_annot, doc_annot, example_dict>>

\* reference.__set__ (part_000 lines 55-56)
SetReference ==
    \E doc \in DocPool :
        /\ y' = doc
        /\ out' = Result("reference.__set__", "", Ok(<<>>))
        /\ UNCHANGED <<x, _alignment, nComputed, tok_annot, doc_annot, example_dict>>

Next ==
    \/ ReadAlignment
    \/ GetAligned
    \/ GetAlignedParse
    \/ GetAlignedNer
    \/ SplitSents
    \/ SetPredicted
    \/ SetReference

Spec == Init /\ [][Next]_vars

\* C9: over any sequence of operations on one Example, setters included, an
\* Alignment is built at most once, by an access that finds none cached, and
\* never when one was handed to the constructor; once cached it never
\* changes, and every read of the alignment property returns it.
C9_AlignmentComputedOnce ==
    [][/\ _alignment # None => _alignment' = _alignment
       /\ nComputed' > nComputed =>
             (_alignment = None /\ nComputed = 0 /\ _alignment' # None)
       /\ (out'.op = "alignment" /\ out'.err = "") =>
             (out'.val = _alignment' /\ (_alignment # None => out'.val = _alignment))
      ]_vars

\* C9's case: the Alignment was built once, a setter then replaced a Doc by
\* one of another length, and a later read returned the cached Alignment.
C9_Witness ==
    /\ nComputed = 1
    /\ out.op = "alignment" /\ out.err = ""
    /\ out.val = _alignment
    /\ Len(Al.cand_to_gold) # Len(x)

-----------------------------------------------------------------------------
(* Annotation bundles.  A dict is the sequence of its <<key, value>> items *)
(* in insertion order.                                                     *)

Keys(d) == [k \in 1..Len(d) |-> d[k][1]]
Has(d, key) == \E k \in 1..Len(d) : d[k][1] = key
Get(d, key) == d[CHOOSE k \in 1..Len(d) : d[k][1] = key][2]
\* d[key] = value
Put(d, key, value) ==
    IF Has(d, key)
    THEN [k \in 1..Len(d) |-> IF d[k][1] = key THEN <<key, value>> ELSE d[k]]
    ELSE Append(d, <<key, value>>)

\* vocab.strings: a string's id is its place in the store; "" has id 0.
StringStore == <<"", "Q1", "Q2", "GPE", "ORG", "NN", "VB", "I", "O", "B", "X">>
StringId(str) == (CHOOSE k \in 1..Len(StringStore) : StringStore[k] = str) - 1
StringOf(id) == StringStore[id + 1]

\* An integer as a cell of a uint64 array: the four 16-bit limbs of its
\* value modulo 2^64, most significant first (\div rounds down, so a
\* negative integer gets its two's complement).
Limb == 65536
Uint64(v) ==
    <<(((v \div Limb) \div Limb) \div Limb) % Limb,
      ((v \div Limb) \div Limb) % Limb,
      (v \div Limb) % Limb,
      v % Limb>>

\* The cell read back as a signed 64-bit integer, for a cell whose upper
\* limbs only extend the sign.
Int64(cell) == IF cell[1] >= Limb \div 2 THEN cell[4] - Limb ELSE cell[4]

\* The attribute names of attrs.IDS that a bundle can use.
IDS == {"ORTH", "SPACY", "TAG", "POS", "LEMMA", "DEP", "HEAD", "MORPH",
        "SENT_START", "ENT_IOB", "ENT_TYPE", "ENT_KB_ID"}

\* Character offsets of the tokens of Doc(vocab, words=words, spaces=spaces).
TokenStart(words, spaces, k) ==
    SumTo([j \in 1..Len(words) |-> Len(words[j]) + (IF spaces[j] THEN 1 ELSE 0)],
          k - 1)
TokenEnd(words, spaces, k) == TokenStart(words, spaces, k) + Len(words[k])

\* Doc(vocab, words=words): every token is followed by a space.
DefaultSpaces(words) == [k \in 1..Len(words) |-> TRUE]

-----------------------------------------------------------------------------
(* _parse_links, part_000 lines 371-399.  links is a dict from             *)
(* <<start_char, end_char>> to a dict from kb-id to weight (in tenths: 10  *)
(* is 1.0); entities is a list of <<start_char, end_char, label>>.         *)

\* true_kb_ids of one link (lines 385-388)
TrueKbIds(annot_dict) ==
    SelectSeq(Keys(annot_dict), LAMBDA key : Get(annot_dict, key) = 10)

\* starts.get(start_char) and ends.get(end_char): a token or None
StartToken(words, spaces, start_char) ==
    IF \E k \in 1..Len(words) : TokenStart(words, spaces, k) = start_char
    THEN Some(CHOOSE k \in 1..Len(words) : TokenStart(words, spaces, k) = start_char)
    ELSE None
EndToken(words, spaces, end_char) ==
    IF \E k \in 1..Len(words) : TokenEnd(words, spaces, k) = end_char
    THEN Some(CHOOSE k \in 1..Len(words) : TokenEnd(words, spaces, k) = end_char)
    ELSE None

\* The second loop (lines 384-397) from link l on, ent_kb_ids being the
\* column so far.  range(start_token, end_token + 1) with a None raises
\* TypeError.
RECURSIVE LinkLoop(_, _, _, _, _)
LinkLoop(words, spaces, links, l, ent_kb_ids) ==
    IF l > Len(links) THEN Ok(ent_kb_ids)
    ELSE LET link_index == links[l][1]
             true_kb_ids == TrueKbIds(links[l][2])
             start_token == StartToken(words, spaces, link_index[1])
             end_token == EndToken(words, spaces, link_index[2])
         IN  IF Len(true_kb_ids) > 1 THEN Raise("E980")
             ELSE IF Len(true_kb_ids) = 1
             THEN IF start_token = None \/ end_token = None
                  THEN Raise("TypeError")
                  ELSE LinkLoop(words, spaces, links, l + 1,
                          [i \in 1..Len(words) |->
                              IF Val(start_token) <= i /\ i <= Val(end_token)
                              THEN true_kb_ids[1] ELSE ent_kb_ids[i]])
             ELSE LinkLoop(words, spaces, links, l + 1, ent_kb_ids)

\* _parse_links with the offsets of a Doc whose spaces are given: the code
\* builds Doc(vocab, words=words), so it is used with DefaultSpaces(words).
ParseLinksWith(words, spaces, links, entities) ==
    LET entity_map == {<<entities[e][1], entities[e][2]>> : e \in 1..Len(entities)}
    IN  IF \E l \in 1..Len(links) : links[l][1] \notin entity_map
        THEN Raise("E981")
        ELSE LinkLoop(words, spaces, links, 1, [i \in 1..Len(words) |-> ""])

\* A variant whose first loop is missing: no link is checked against the
\* entities.
UncheckedLinks(words, links, entities) ==
    LinkLoop(words, DefaultSpaces(words), links, 1, [i \in 1..Len(words) |-> ""])

_parse_links(words, links, entities) ==
    ParseLinksWith(words, DefaultSpaces(words), links, entities)

-----------------------------------------------------------------------------
(* _annot2array, part_000 lines 216-254.                                   *)

\* Python truth of a list or dict
Truthy(value) == value # <<>>

\* The loop over doc_annot.items() (lines 220-233) from item k on: the
\* token annotations it leaves, or the exception it raises.
RECURSIVE DocAnnotLoop(_, _, _)
DocAnnotLoop(tok, doc, k) ==
    IF k > Len(doc) THEN Ok(tok)
    ELSE LET key == doc[k][1]
             value == doc[k][2]
         IN  IF ~Truthy(value) \/ key \in {"entities", "cats"}
             THEN DocAnnotLoop(tok, doc, k + 1)
             ELSE IF key = "links"
             THEN LET entities == IF Has(doc, "entities")
                                  THEN Get(doc, "entities") ELSE <<>>
                  IN  IF ~Truthy(entities) THEN Raise("E981")
                      ELSE LET ent_kb_ids ==
                                   _parse_links(Get(tok, "ORTH"), value, entities)
                           IN  IF ent_kb_ids.err # "" THEN ent_kb_ids
                               ELSE DocAnnotLoop(
                                        Put(tok, "ENT_KB_ID", ent_kb_ids.val),
                                        doc, k + 1)
             ELSE Raise("ValueError")

\* A variant of the HEAD column that keeps the absolute head indices.
AbsoluteHeads(value) == value

\* [h-i for i, h in enumerate(value)] (line 242)
HeadOffsets(value) == [k \in 1..Len(value) |-> value[k] - (k - 1)]

\* The list appended to values for one token attribute (lines 240-251).
Column(key, value) ==
    IF key = "HEAD" THEN HeadOffsets(value)
    ELSE IF key = "SENT_START" THEN value
    ELSE [k \in 1..Len(value) |-> StringId(value[k])]

\* attrs and array.T: one row per token, one uint64 cell per attribute.
_annot2array(tok_annot0, doc_annot0) ==
    LET r == DocAnnotLoop(tok_annot0, doc_annot0, 1)
    IN  IF r.err # "" THEN r
        ELSE IF \E k \in 1..Len(r.val) : r.val[k][1] \notin IDS
        THEN Raise("ValueError")
        ELSE LET attrs == SelectSeq(Keys(r.val),
                              LAMBDA key : key \notin {"ORTH", "SPACY"})
                 values == [a \in 1..Len(attrs) |->
                               Column(attrs[a], Get(r.val, attrs[a]))]
                 n == IF attrs = <<>> THEN 0 ELSE Len(values[1])
             IN  Ok([attrs |-> attrs,
                     array |-> [i \in 1..n |->
                                  [a \in 1..Len(attrs) |-> Uint64(values[a][i])]],
                     tok_annot |-> r.val])

-----------------------------------------------------------------------------
(* _add_entities_to_doc (lines 257-277) for a list of offset tuples: the   *)
(* token spans biluo_tags_from_offsets and spans_from_biluo_tags give.     *)

EntitySpans(words, spaces, ner_data) ==
    LET aligned == SelectSeq(ner_data, LAMBDA e :
                       /\ StartToken(words, spaces, e[1]) # None
                       /\ EndToken(words, spaces, e[2]) # None)
    IN  [e \in 1..Len(aligned) |->
            [first |-> Val(StartToken(words, spaces, aligned[e][1])),
             last |-> Val(EndToken(words, spaces, aligned[e][2])),
             label |-> aligned[e][3]]]

_add_entities_to_doc(words, spaces, ner_data) ==
    IF ner_data = <<>> THEN Ok(<<>>)
    ELSE IF SpansOverlap(EntitySpans(words, spaces, ner_data))
    THEN Raise("E103")
    ELSE Ok(EntitySpans(words, spaces, ner_data))

-----------------------------------------------------------------------------
(* annotations2doc, part_000 lines 19-29.  The Doc is the record of its    *)
(* words and spaces, the attribute columns from_array loaded, its entities *)
(* and its cats.                                                           *)

annotations2doc(tok_annot0, doc_annot0) ==
    LET r == _annot2array(tok_annot0, doc_annot0)
        words == Get(tok_annot0, "ORTH")
        spaces == Get(tok_annot0, "SPACY")
    IN  IF r.err # "" THEN r
        ELSE IF ~Has(tok_annot0, "ORTH") \/ ~Has(tok_annot0, "SPACY")
        THEN Raise("KeyError")
        ELSE LET loaded == r.val.array # <<>> /\ r.val.attrs # <<>>
                 doc_ents == IF Has(doc_annot0, "entities")
                             THEN _add_entities_to_doc(words, spaces,
                                      Get(doc_annot0, "entities"))
                             ELSE Ok(<<>>)
             IN  IF doc_ents.err # "" THEN doc_ents
                 ELSE Ok([words |-> words,
                          spaces |-> spaces,
                          attrs |-> IF loaded THEN r.val.attrs ELSE <<>>,
                          array |-> IF loaded THEN r.val.array ELSE <<>>,
                          ents |-> doc_ents.val,
                          cats |-> IF Has(doc_annot0, "cats")
                                   THEN Get(doc_annot0, "cats") ELSE <<>>])

\* annotations2doc(vocab, tok_annot, doc_annot); _annot2array leaves the
\* ENT_KB_ID it resolved in tok_annot.
Annotations2Doc ==
    /\ tok_annot # <<>>
    /\ LET r == _annot2array(tok_annot, doc_annot)
       IN  tok_annot' = IF r.err = "" THEN r.val.tok_annot
                        ELSE LET d == DocAnnotLoop(tok_annot, doc_annot, 1)
                             IN  IF d.err = "" THEN d.val ELSE tok_annot
    /\ out' = Result("annotations2doc", "", annotations2doc(tok_annot, doc_annot))
    /\ UNCHANGED <<x, y, _alignment, nComputed, doc_annot, example_dict>>

-----------------------------------------------------------------------------
(* The encoder: annotation bundles with links, or with heads, handed to    *)
(* annotations2doc.                                                        *)

\* Most words of a bundle with links, and of a bundle with heads.
MaxLinkWords == 2
MaxHeadWords == 3

\* n one-letter words
LetterWords(n) == [k \in 1..n |-> <<"a">>]

\* The <<start_char, end_char>> of the tokens first..last of the Doc.
CharSpan(words, spaces, first, last) ==
    <<TokenStart(words, spaces, first), TokenEnd(words, spaces, last)>>

TokenSpans(n) == {s \in (1..n) \X (1..n) : s[1] <= s[2]}

\* Entity lists over the tokens: none, one, two that follow each other, or
\* the same span declared twice.
EntityLists(n) ==
    {<<>>} \cup {<<s>> : s \in TokenSpans(n)}
           \cup {p \in TokenSpans(n) \X TokenSpans(n) :
                    p[1][2] < p[2][1] \/ p[1] = p[2]}

\* The kb annotations of one link: weights in tenths.
KbAnnots ==
    {<< <<"Q1", 10>> >>, << <<"Q1", 5>> >>,
     << <<"Q1", 10>>, <<"Q2", 10>> >>, << <<"Q1", 0>>, <<"Q2", 10>> >>}

\* Link dicts over the tokens: up to two links with different keys.
LinkLists(n) ==
    {<<>>} \cup {<< <<s, a>> >> : s \in TokenSpans(n), a \in KbAnnots}
           \cup {p \in (TokenSpans(n) \X KbAnnots) \X (TokenSpans(n) \X KbAnnots) :
                    p[1][1] # p[2][1]}

InitLinks ==
    \E n \in 1..MaxLinkWords :
    \E spaces \in [1..n -> BOOLEAN] :
    \E ent \in EntityLists(n), lnk \in LinkLists(n), entKey \in BOOLEAN :
        LET words == LetterWords(n)
            entities == [e \in 1..Len(ent) |->
                            CharSpan(words, spaces, ent[e][1], ent[e][2])
                                \o <<"GPE">>]
            links == [l \in 1..Len(lnk) |->
                        <<CharSpan(words, spaces, lnk[l][1][1], lnk[l][1][2]),
                          lnk[l][2]>>]
        IN  /\ entKey \/ ent = <<>>
            /\ tok_annot = << <<"ORTH", words>>, <<"SPACY", spaces>> >>
            /\ doc_annot = (IF entKey THEN << <<"entities", entities>> >> ELSE <<>>)
                              \o << <<"links", links>> >>

InitHeads ==
    \E n \in 1..MaxHeadWords :
    \E heads \in [1..n -> 0..(n - 1)], tagged \in BOOLEAN :
        /\ tok_annot = << <<"ORTH", LetterWords(n)>>,
                          <<"SPACY", [k \in 1..n |-> TRUE]>>,
                          <<"HEAD", heads>> >>
                       \o (IF tagged THEN << <<"TAG", [k \in 1..n |-> "NN"]>> >>
                           ELSE <<>>)
        /\ doc_annot = <<>>

\* Most words of a bundle with an ENT_IOB column.
MaxIobWords == 2

\* Token.iob_strings()
iob_strings == <<"", "I", "O", "B">>

\* Raw tags of an ENT_IOB column: the enumeration and one string outside.
RawIobTags == {"", "I", "O", "B", "X"}

InitIob ==
    \E n \in 1..MaxIobWords :
    \E tags \in [1..n -> RawIobTags] :
        /\ tok_annot = << <<"ORTH", LetterWords(n)>>,
                          <<"SPACY", [k \in 1..n |-> FALSE]>>,
                          <<"ENT_IOB", tags>> >>
        /\ doc_annot = <<>>

InitEncode ==
    /\ x = <<>> /\ y = <<>>
    /\ _alignment = None
    /\ nComputed = 0
    /\ out = NoOut
    /\ example_dict = <<>>
    /\ (InitLinks \/ InitHeads \/ InitIob)

NextEncode == Annotations2Doc

SpecEncode == InitEncode /\ [][NextEncode]_vars

-----------------------------------------------------------------------------
(* Properties of the encoder.                                              *)

Built == out.op = "annotations2doc"
Links == IF Has(doc_annot, "links") THEN Get(doc_annot, "links") ELSE <<>>
Entities == IF Has(doc_annot, "entities") THEN Get(doc_annot, "entities") ELSE <<>>

\* The declared entities whose (start_char, end_char) is the key.
Declared(key) ==
    {e \in 1..Len(Entities) : <<Entities[e][1], Entities[e][2]>> = key}

Ambiguous(l) == Len(TrueKbIds(Links[l][2])) >= 2

\* C3: a bundle with a link key that is not the span of exactly one declared
\* entity always fails with the link/entity-mismatch error (E981) and
\* returns no document, whatever the weights are.
C3_LinkNotOneToOneFailsMismatch ==
    (Built /\ \E l \in 1..Len(Links) : Cardinality(Declared(Links[l][1])) # 1)
        => (out.err = "E981" /\ out.val = <<>>)

Mismatch ==
    Entities = <<>> \/ \E l \in 1..Len(Links) : Declared(Links[l][1]) = {}

\* A link with one kb-id of weight 1.0 whose offsets are not token
\* boundaries of the words joined by single spaces, ahead of the first
\* ambiguous link.
OffGridBeforeAmbiguous ==
    LET words == Get(tok_annot, "ORTH")
        joined == DefaultSpaces(words)
    IN  \E l \in 1..Len(Links) :
            /\ \A m \in 1..l : ~Ambiguous(m)
            /\ Len(TrueKbIds(Links[l][2])) = 1
            /\ \/ \A k \in 1..Len(words) :
                      TokenStart(words, joined, k) # Links[l][1][1]
               \/ \A k \in 1..Len(words) :
                      TokenEnd(words, joined, k) # Links[l][1][2]

KbIdOf(doc, i) ==
    IF \E a \in 1..Len(doc.attrs) : doc.attrs[a] = "ENT_KB_ID"
    THEN StringOf(doc.array[i][CHOOSE a \in 1..Len(doc.attrs) :
                                  doc.attrs[a] = "ENT_KB_ID"][4])
    ELSE ""

\* The kb-id the links give token i, by the tokens' real offsets.
LinkedKbId(i) ==
    LET words == Get(tok_annot, "ORTH")
        spaces == Get(tok_annot, "SPACY")
        over == {l \in 1..Len(Links) :
                    /\ Len(TrueKbIds(Links[l][2])) = 1
                    /\ \E f \in 1..i, t \in i..Len(words) :
                          CharSpan(words, spaces, f, t) = Links[l][1]}
    IN  IF over = {} THEN "" ELSE TrueKbIds(Links[CHOOSE l \in over : TRUE][2])[1]

\* C5: for a bundle of distinct entities whose links all match declared
\* entities and none is ambiguous, the build completes and every token
\* spanned (by real character offsets) by a link with one kb-id of weight
\* 1.0 carries that kb-id, every other token an empty ENT_KB_ID.
C5_KbIdsFollowRealOffsets ==
    (/\ Built
     /\ Links # <<>>
     /\ \A l \in 1..Len(Links) :
            Cardinality(Declared(Links[l][1])) = 1 /\ ~Ambiguous(l)
     /\ \A e \in 1..Len(Entities) :
            Cardinality(Declared(<<Entities[e][1], Entities[e][2]>>)) = 1)
        => /\ out.err = ""
           /\ \A i \in 1..Len(Get(tok_annot, "ORTH")) :
                  KbIdOf(out.val, i) = LinkedKbId(i)

\* The HEAD column of the built document, each cell read as a signed
\* 64-bit integer.
HeadColumn(doc) ==
    LET a == CHOOSE c \in 1..Len(doc.attrs) : doc.attrs[c] = "HEAD"
    IN  [i \in 1..Len(doc.array) |-> doc.array[i][a]]

\* C8: the HEAD column at row i (0-based) holds h[i] - i, not h[i]: the
\* value itself when it is not negative, 2^64 plus the value when it is,
\* which reads back as the negative offset.
C8_HeadStoredAsSignedOffset ==
    (Built /\ Has(tok_annot, "HEAD"))
        => /\ out.err = ""
           /\ LET h == Get(tok_annot, "HEAD")
                  col == HeadColumn(out.val)
              IN  /\ Len(col) = Len(h)
                  /\ \A k \in 1..Len(h) :
                        LET offset == h[k] - (k - 1)
                        IN  /\ col[k] = IF offset >= 0
                                        THEN <<0, 0, 0, offset>>
                                        ELSE <<Limb - 1, Limb - 1, Limb - 1,
                                               Limb + offset>>
                            /\ Int64(col[k]) = offset

\* C8 witness: HEAD = [1, 1, 1] has been encoded and reads back as
\* [1, 0, -1].
C8_Witness ==
    /\ Built /\ Has(tok_annot, "HEAD") /\ out.err = ""
    /\ Get(tok_annot, "HEAD") = <<1, 1, 1>>
    /\ [k \in 1..3 |-> Int64(HeadColumn(out.val)[k])] = <<1, 0, -1>>

-----------------------------------------------------------------------------
(* Legacy bundles: _fix_legacy_dict_data, _has_field, _guess_spaces and    *)
(* Example.from_dict of part_000.                                          *)

\* An exception whose message names a key.
RaiseKey(e, key) == [err |-> e, val |-> <<key>>]

\* d.get(key, default)
GetOr(d, key, default) == IF Has(d, key) THEN Get(d, key) ELSE default

\* d.pop(key)
Pop(d, key) == SelectSeq(d, LAMBDA item : item[1] # key)

\* _has_field (lines 335-345); the columns here hold no None entries.
_has_field(annot, field) ==
    /\ Has(annot, field)
    /\ Len(Get(annot, field)) # 0

\* A variant of text[text_pos:].index(word) that gives the last occurrence.
FindLast(text, word, text_pos) ==
    LET at == {q \in 0..(Len(text) - text_pos) : MatchAt(text, word, text_pos + q + 1)}
    IN  IF at = {} THEN None
        ELSE Some(CHOOSE q \in at : \A r \in at : q >= r)

\* text[text_pos:].index(word): the offset of the first match, or None.
FindFrom(text, word, text_pos) ==
    LET at == {q \in 0..(Len(text) - text_pos) : MatchAt(text, word, text_pos + q + 1)}
    IN  IF at = {} THEN None
        ELSE Some(CHOOSE q \in at : \A r \in at : q <= r)

\* _guess_spaces (lines 402-417), from word k on; text_pos is 0-based.
RECURSIVE GuessLoop(_, _, _, _)
GuessLoop(text, words, k, text_pos) ==
    IF k > Len(words) THEN <<>>
    ELSE LET word_start == FindFrom(text, words[k], text_pos)
         IN  IF word_start = None
             THEN <<TRUE>> \o GuessLoop(text, words, k + 1, text_pos)
             ELSE LET pos == text_pos + Val(word_start) + Len(words[k])
                  IN  <<pos < Len(text) /\ text[pos + 1] = " ">>
                          \o GuessLoop(text, words, k + 1, pos)

_guess_spaces(text, words) == GuessLoop(text, words, 1, 0)

\* The first loop of _fix_legacy_dict_data (lines 290-301) from item k on:
\* the token_dict and doc_dict it fills.
RECURSIVE HoistLoop(_, _, _, _)
HoistLoop(dict, k, token_dict, doc_dict) ==
    IF k > Len(dict) THEN [token_dict |-> token_dict, doc_dict |-> doc_dict]
    ELSE LET key == dict[k][1]
             value == dict[k][2]
         IN  IF ~Truthy(value) \/ key \in {"token_annotation", "doc_annotation", "ids"}
             THEN HoistLoop(dict, k + 1, token_dict, doc_dict)
             ELSE IF key \in {"cats", "links"}
             THEN HoistLoop(dict, k + 1, token_dict, Put(doc_dict, key, value))
             ELSE IF key \in {"ner", "entities"}
             THEN HoistLoop(dict, k + 1, token_dict, Put(doc_dict, "entities", value))
             ELSE HoistLoop(dict, k + 1, Put(token_dict, key, value), doc_dict)

\* The first loop without its "if value:" guard around the token keys, as
\* new_example.pyx lines 205-215 have it.
RECURSIVE NewHoistLoop(_, _, _, _)
NewHoistLoop(dict, k, token_dict, doc_dict) ==
    IF k > Len(dict) THEN [token_dict |-> token_dict, doc_dict |-> doc_dict]
    ELSE LET key == dict[k][1]
             value == dict[k][2]
         IN  IF key \in {"token_annotation", "doc_annotation", "ids"}
             THEN NewHoistLoop(dict, k + 1, token_dict, doc_dict)
             ELSE IF key \in {"cats", "links"} /\ Truthy(value)
             THEN NewHoistLoop(dict, k + 1, token_dict, Put(doc_dict, key, value))
             ELSE IF key \in {"ner", "entities"} /\ Truthy(value)
             THEN NewHoistLoop(dict, k + 1, token_dict, Put(doc_dict, "entities", value))
             ELSE NewHoistLoop(dict, k + 1, Put(token_dict, key, value), doc_dict)

remapping ==
    << <<"words", "ORTH">>, <<"tags", "TAG">>, <<"pos", "POS">>,
       <<"lemmas", "LEMMA">>, <<"deps", "DEP">>, <<"heads", "HEAD">>,
       <<"sent_starts", "SENT_START">>, <<"morphs", "MORPH">>,
       <<"spaces", "SPACY">> >>

\* The remapping loop (lines 315-322) from item k on.
RECURSIVE RemapLoop(_, _, _)
RemapLoop(old_token_dict, k, token_dict) ==
    IF k > Len(old_token_dict) THEN Ok(token_dict)
    ELSE LET key == old_token_dict[k][1]
             value == old_token_dict[k][2]
         IN  IF key \in {"text", "ids", "brackets"}
             THEN RemapLoop(old_token_dict, k + 1, token_dict)
             ELSE IF Has(remapping, key)
             THEN RemapLoop(old_token_dict, k + 1,
                            Put(token_dict, Get(remapping, key), value))
             ELSE RaiseKey("E983", key)

\* _fix_legacy_dict_data, part_000 lines 287-333.
_fix_legacy_dict_data(dict) ==
    LET hoisted == HoistLoop(dict, 1, GetOr(dict, "token_annotation", <<>>),
                             GetOr(dict, "doc_annotation", <<>>))
        remapped == RemapLoop(hoisted.token_dict, 1, <<>>)
        text == GetOr(dict, "text", GetOr(dict, "raw", <<>>))
    IN  IF remapped.err # "" THEN remapped
        ELSE IF Truthy(text) /\ ~_has_field(remapped.val, "SPACY")
                             /\ ~Has(remapped.val, "ORTH")
        THEN Raise("KeyError")
        ELSE LET spaced ==
                     IF Truthy(text) /\ ~_has_field(remapped.val, "SPACY")
                     THEN Put(remapped.val, "SPACY",
                              _guess_spaces(text, Get(remapped.val, "ORTH")))
                     ELSE remapped.val
                 token_dict ==
                     IF Has(spaced, "HEAD") /\ Has(spaced, "SENT_START")
                     THEN Pop(spaced, "SENT_START") ELSE spaced
             IN  Ok([token_annotation |-> token_dict,
                     doc_annotation |-> hoisted.doc_dict])

\* The first loop writes into the bundle's own token_annotation and
\* doc_annotation dicts, when it has them.
HoistedInPlace(dict) ==
    LET hoisted == HoistLoop(dict, 1, GetOr(dict, "token_annotation", <<>>),
                             GetOr(dict, "doc_annotation", <<>>))
    IN  [k \in 1..Len(dict) |->
            IF dict[k][1] = "token_annotation"
            THEN <<"token_annotation", hoisted.token_dict>>
            ELSE IF dict[k][1] = "doc_annotation"
            THEN <<"doc_annotation", hoisted.doc_dict>>
            ELSE dict[k]]


\* The remapping loop of new_example.pyx (lines 228-235): no "spaces", and
\* the exception is a ValueError naming the key.
RECURSIVE NewRemapLoop(_, _, _)
NewRemapLoop(old_token_dict, k, token_dict) ==
    IF k > Len(old_token_dict) THEN Ok(token_dict)
    ELSE LET key == old_token_dict[k][1]
             value == old_token_dict[k][2]
         IN  IF key \in {"text", "ids", "entities", "ner", "brackets"}
             THEN NewRemapLoop(old_token_dict, k + 1, token_dict)
             ELSE IF Has(remapping, key) /\ key # "spaces"
             THEN NewRemapLoop(old_token_dict, k + 1,
                               Put(token_dict, Get(remapping, key), value))
             ELSE RaiseKey("ValueError", key)

\* _fix_legacy_dict_data, new_example.pyx lines 202-242.
NewExample_fix_legacy_dict_data(dict) ==
    LET hoisted == NewHoistLoop(dict, 1, GetOr(dict, "token_annotation", <<>>),
                                GetOr(dict, "doc_annotation", <<>>))
        remapped == NewRemapLoop(hoisted.token_dict, 1, <<>>)
    IN  IF remapped.err # "" THEN remapped
        ELSE Ok([token_annotation |->
                    IF Has(remapped.val, "HEAD") /\ Has(remapped.val, "SENT_START")
                    THEN Pop(remapped.val, "SENT_START") ELSE remapped.val,
                 doc_annotation |-> hoisted.doc_dict])

\* The Doc that annotations2doc built, as the tokens of a reference
\* document: from_array adds the offset to the token's own index.
DocFrom(built) ==
    LET col(attr) == CHOOSE a \in 1..Len(built.attrs) : built.attrs[a] = attr
        has(attr) == \E a \in 1..Len(built.attrs) : built.attrs[a] = attr
        inEnt(k) == \E e \in 1..Len(built.ents) :
                        built.ents[e].first <= k /\ k <= built.ents[e].last
        entOf(k) == built.ents[CHOOSE e \in 1..Len(built.ents) :
                        built.ents[e].first <= k /\ k <= built.ents[e].last]
    IN  [k \in 1..Len(built.words) |->
            Token(built.words[k], built.spaces[k],
                  IF has("TAG") THEN built.array[k][col("TAG")][4] ELSE 0,
                  IF has("SENT_START")
                  THEN Int64(built.array[k][col("SENT_START")]) ELSE 0,
                  IF inEnt(k) THEN (IF entOf(k).first = k THEN 3 ELSE 1)
                  ELSE IF built.ents # <<>> THEN 2 ELSE 0,
                  IF inEnt(k) THEN entOf(k).label ELSE "",
                  IF has("HEAD") THEN k + Int64(built.array[k][col("HEAD")]) ELSE k,
                  "")]

\* The token and doc dicts from_dict hands to annotations2doc (lines 64-68),
\* or the exception raised before.
ParsedBundle(predicted, bundle) ==
    IF bundle = None THEN Raise("ValueError")
    ELSE LET fixed == _fix_legacy_dict_data(Val(bundle))
         IN  IF fixed.err # "" THEN fixed
             ELSE LET tok_dict == fixed.val.token_annotation
                  IN  Ok([tok_dict |->
                             IF Has(tok_dict, "ORTH") THEN tok_dict
                             ELSE Put(Put(tok_dict, "ORTH", Words(predicted)),
                                      "SPACY",
                                      [k \in 1..Len(predicted) |-> predicted[k].ws]),
                          doc_dict |-> fixed.val.doc_annotation])

\* Example.from_dict, part_000 lines 58-74: the reference document of the
\* new Example.  The spaces guessed at line 70 are not kept.
from_dict(predicted, bundle) ==
    LET parsed == ParsedBundle(predicted, bundle)
    IN  IF parsed.err # "" THEN parsed
        ELSE annotations2doc(parsed.val.tok_dict, parsed.val.doc_dict)

\* Example._links_to_dict, part_000 lines 177-182: one entry per entity of
\* the reference that has a kb-id, keyed by the entity's character offsets.
_links_to_dict(built) ==
    LET reference == DocFrom(built)
        linked == SelectSeq(ents(reference),
                            LAMBDA ent : KbIdOf(built, ent.first) # "")
    IN  [l \in 1..Len(linked) |->
            << <<Idx(reference, linked[l].first),
                 Idx(reference, linked[l].last)
                     + Len(reference[linked[l].last].text)>>,
               << <<KbIdOf(built, linked[l].first), 1>> >> >>]

\* Example.to_dict, part_000 lines 157-175, of the reference annotations2doc
\* built.  No bundle here sets a lemma, a part of speech or a morphology, so
\* these columns are empty strings.
to_dict(built) ==
    LET reference == DocFrom(built)
        n == Len(reference)
        tags == biluo_tags_from_offsets(reference, ents(reference)).val
    IN  << <<"doc_annotation",
             << <<"cats", built.cats>>,
                <<"entities", [i \in 1..n |-> Val(tags[i])]>>,
                <<"links", _links_to_dict(built)>> >> >>,
           <<"token_annotation",
             << <<"ids", [i \in 1..n |-> i]>>,
                <<"words", [i \in 1..n |-> reference[i].text]>>,
                <<"tags", [i \in 1..n |-> StringOf(reference[i].tag)]>>,
                <<"lemmas", [i \in 1..n |-> ""]>>,
                <<"pos", [i \in 1..n |-> ""]>>,
                <<"morphs", [i \in 1..n |-> ""]>>,
                <<"heads", [i \in 1..n |-> reference[i].head - 1]>>,
                <<"deps", [i \in 1..n |-> reference[i].dep]>>,
                <<"sent_starts",
                  [i \in 1..n |-> IF reference[i].sent_start = 1 THEN 1 ELSE 0]>>
             >> >> >>

\* Example.from_dict(predicted, example_dict); the bundle is the one the
\* caller holds, or the one to_dict has just returned.
FromDict ==
    /\ \/ y = <<>> /\ out.op = ""
       \/ out.op = "to_dict"
    /\ \E bundle \in {IF out.op = "to_dict" THEN Some(out.val) ELSE example_dict} :
       \E parsed \in {ParsedBundle(x, bundle)} :
       \E r \in {from_dict(x, bundle)} :
       \E reference \in {IF r.err = "" THEN DocFrom(r.val) ELSE y} :
           /\ out' = Result("from_dict", out.op, r)
           /\ y' = reference
           /\ example_dict' = IF bundle = None THEN bundle
                              ELSE Some(HoistedInPlace(Val(bundle)))
           /\ tok_annot' = IF parsed.err # "" THEN tok_annot
                           ELSE LET a == _annot2array(parsed.val.tok_dict,
                                                      parsed.val.doc_dict)
                                IN  IF a.err = "" THEN a.val.tok_annot
                                    ELSE parsed.val.tok_dict
           /\ doc_annot' = IF parsed.err # "" THEN doc_annot
                           ELSE parsed.val.doc_dict
    /\ UNCHANGED <<x, _alignment, nComputed>>

\* Example.to_dict() of the Example from_dict has just returned.
ToDict ==
    /\ out.op = "from_dict" /\ out.err = ""
    /\ \E exported \in {to_dict(out.val)} :
           out' = Result("to_dict", "", Ok(exported))
    /\ UNCHANGED <<x, y, _alignment, nComputed, tok_annot, doc_annot,
                   example_dict>>

\* _fix_legacy_dict_data(predicted, example_dict) of new_example.pyx
NewFixLegacyDictData ==
    /\ y = <<>> /\ out.op = "" /\ example_dict # None
    /\ out' = Result("new_fix_legacy_dict_data", "",
                     NewExample_fix_legacy_dict_data(Val(example_dict)))
    /\ example_dict' =
          LET dict == Val(example_dict)
              hoisted == NewHoistLoop(dict, 1,
                             GetOr(dict, "token_annotation", <<>>),
                             GetOr(dict, "doc_annotation", <<>>))
          IN  Some([k \in 1..Len(dict) |->
                      IF dict[k][1] = "token_annotation"
                      THEN <<"token_annotation", hoisted.token_dict>>
                      ELSE IF dict[k][1] = "doc_annotation"
                      THEN <<"doc_annotation", hoisted.doc_dict>>
                      ELSE dict[k]])
    /\ UNCHANGED <<x, y, _alignment, nComputed, tok_annot, doc_annot>>

-----------------------------------------------------------------------------
(* Legacy bundles handed to from_dict.                                     *)

\* Most tokens of the predicted document of a bundle.
MaxBundleWords == 2

\* An optional item of a bundle: absent, with a falsy value, or with value.
Choices == {"absent", "falsy", "value"}
Item(choice, key, value) ==
    IF choice = "absent" THEN <<>>
    ELSE IF choice = "falsy" THEN << <<key, <<>>>> >>
    ELSE << <<key, value>> >>

InitLegacy ==
    \E n \in 1..MaxBundleWords :
    \E ws \in [1..n -> BOOLEAN] :
    \E structured, isNone \in BOOLEAN :
    \E words, spaces, heads, sent_starts, text \in {"absent", "value"} :
    \E tags, entities, foo \in Choices :
    \E textKey \in {"text", "raw"} :
        LET predicted == [k \in 1..n |-> Token(<<"a">>, ws[k], 0, 0, 0, "", k, "")]
            token_items ==
                Item(words, "words", Words(predicted))
                \o Item(spaces, "spaces", ws)
                \o Item(tags, "tags", [k \in 1..n |-> "NN"])
                \o Item(heads, "heads", [k \in 1..n |-> 0])
                \o Item(sent_starts, "sent_starts", [k \in 1..n |-> 1])
            doc_items == Item(entities, "entities", << <<0, 1, "GPE">> >>)
            top_items ==
                Item(text, textKey, DocText(predicted))
                \o Item(foo, "foo", <<"bar">>)
        IN  /\ structured => tags # "falsy"
            /\ text = "absent" => textKey = "text"
            /\ isNone => (~structured /\ words = "absent" /\ spaces = "absent"
                          /\ heads = "absent" /\ sent_starts = "absent"
                          /\ text = "absent" /\ tags = "absent"
                          /\ entities = "absent" /\ foo = "absent")
            /\ x = predicted
            /\ example_dict =
                  IF isNone THEN None
                  ELSE IF structured
                  THEN Some(<< <<"token_annotation", token_items>>,
                               <<"doc_annotation", doc_items>> >> \o top_items)
                  ELSE Some(token_items \o doc_items \o top_items)
            /\ y = <<>>
            /\ _alignment = None
            /\ nComputed = 0
            /\ out = NoOut
            /\ tok_annot = <<>> /\ doc_annot = <<>>

NextLegacy == FromDict \/ ToDict \/ NewFixLegacyDictData

SpecLegacy == InitLegacy /\ [][NextLegacy]_vars

\* C6: a bundle with the top-level key "foo", which is none of the
\* remapped, passthrough or structured keys (and no other such key beside
\* it), makes from_dict fail with the unknown-key error that names "foo",
\* whatever value the key holds.
C6_UnknownKeyAlwaysRejected ==
    (/\ out.op = "from_dict"
     /\ example_dict # None
     /\ Has(Val(example_dict), "foo")
     /\ ~Has(Val(example_dict), "raw"))
        => (out.err = "E983" /\ out.val = <<"foo">>)

-----------------------------------------------------------------------------
(* Entity recovery in get_aligned_ner.                                     *)

\* The 0-based offsets at which sub occurs in text.
Occurrences(text, sub) ==
    {p \in 0..(Len(text) - Len(sub)) : MatchAt(text, sub, p + 1)}

\* The predicted-frame spans reference entity e is to yield: the span
\* between the images of its first and last token when both resolve; else
\* the span at the one place its text occurs in the predicted text, when
\* that place lies on token boundaries; else none.
ExpectedSpans(e) ==
    LET y_ent == ents(y)[e]
        x_start == Al.gold_to_cand[y_ent.first]
        x_end == Al.gold_to_cand[y_ent.last]
        ent_text == SpanText(y, y_ent.first, y_ent.last)
        places == Occurrences(DocText(x), ent_text)
    IN  IF x_start # None /\ x_end # None
        THEN <<[first |-> Val(x_start), last |-> Val(x_end), label |-> y_ent.label]>>
        ELSE IF Cardinality(places) = 1
        THEN LET p == CHOOSE q \in places : TRUE
                 found == char_span(x, p, p + Len(ent_text))
             IN  IF found = None THEN <<>>
                 ELSE <<[first |-> Val(found)[1], last |-> Val(found)[2],
                         label |-> y_ent.label]>>
        ELSE <<>>

RECURSIVE ExpectedFrom(_)
ExpectedFrom(e) ==
    IF e > Len(ents(y)) THEN <<>> ELSE ExpectedSpans(e) \o ExpectedFrom(e + 1)

\* C11: get_aligned_ner never fails over an entity, and each reference
\* entity yields at most one predicted span with its label: the directly
\* mapped one, else the one recovered where its text occurs exactly once
\* in the predicted text, else none (text absent, occurring more than once,
\* or off the token boundaries); the tags returned are those of these spans.
C11_EntityMappedRecoveredOrDropped ==
    out.op = "get_aligned_ner" =>
        /\ out.err = ""
        /\ Recovered = ExpectedFrom(1)
        /\ \A i \in 1..Len(x) :
              out.val[i] # None =>
                  out.val[i] = Some(BiluoTag(ExpectedFrom(1), i))

-----------------------------------------------------------------------------
(* SpecParse: an Example over two tokenizations of one text whose          *)
(* reference carries a dependency tree.                                    *)

DepLabels == <<"nsubj", "ROOT", "dobj">>

\* Head columns of a Doc: every token is a root or below one.
HeadColumns(n) ==
    {h \in [1..n -> 1..n] :
        \A k \in 1..n :
            h[k] = k \/ \E r \in Ancestors(k, h, n) : h[r] = r}

ParsedDoc(base, sp, seg, h) ==
    [k \in 1..Len(seg) |->
        [PlainToken(base, sp, seg, k) EXCEPT
            !.head = h[k],
            !.dep = DepLabels[((k - 1) % Len(DepLabels)) + 1]]]

InitParse ==
    \E n \in 1..MaxChars :
      \E segX \in Compositions(n), segY \in Compositions(n) :
        \E h \in HeadColumns(Len(segY)) :
            /\ x = PlainDoc([p \in 1..n |-> "a"], [p \in 1..n |-> FALSE], segX)
            /\ y = ParsedDoc([p \in 1..n |-> "a"], [p \in 1..n |-> FALSE], segY, h)
            /\ _alignment = None
            /\ nComputed = 0
            /\ out = NoOut
            /\ NoExampleInput

NextParse == GetAlignedParse

SpecParse == InitParse /\ [][NextParse]_vars

\* The projectivized tree of the reference document.
Projectivized ==
    projectivize([k \in 1..Len(y) |-> y[k].head], [k \in 1..Len(y) |-> y[k].dep])

\* The predicted token the projectivized head of c's reference token maps
\* to, or None; None also when c itself is unaligned.
HeadImage(c) ==
    IF Al.cand_to_gold[c] = None THEN None
    ELSE Al.gold_to_cand[Projectivized.heads[Val(Al.cand_to_gold[c])]]

\* C12: get_aligned_parse returns heads and labels with one entry per
\* predicted token; where the token is aligned and the projectivized head
\* of its reference token maps back to a predicted token, the head is that
\* token and the label the projectivized label; everywhere else both are
\* unset; a head is never set without its label, nor a label without head.
C12_ParseProjectedThroughAlignment ==
    out.op = "get_aligned_parse" =>
        /\ out.err = ""
        /\ Len(out.val.aligned_heads) = Len(x)
        /\ Len(out.val.aligned_deps) = Len(x)
        /\ \A c \in 1..Len(x) :
              /\ HeadImage(c) # None =>
                    /\ out.val.aligned_heads[c] = HeadImage(c)
                    /\ out.val.aligned_deps[c] =
                          Some(Projectivized.deps[Val(Al.cand_to_gold[c])])
              /\ HeadImage(c) = None =>
                    /\ out.val.aligned_heads[c] = None
                    /\ out.val.aligned_deps[c] = None
              /\ (out.val.aligned_heads[c] = None) <=> (out.val.aligned_deps[c] = None)

\* C12's case: the reference tree had a crossing arc, and get_aligned_parse
\* returned a head with a decorated label for one token and neither head
\* nor label for another.
C12_Witness ==
    /\ out.op = "get_aligned_parse" /\ out.err = ""
    /\ Projectivized.heads # [k \in 1..Len(y) |-> y[k].head]
    /\ \E c \in 1..Len(x) :
          /\ out.val.aligned_heads[c] # None
          /\ Len(Val(out.val.aligned_deps[c])) = 3
    /\ \E c \in 1..Len(x) :
          /\ out.val.aligned_heads[c] = None
          /\ out.val.aligned_deps[c] = None

-----------------------------------------------------------------------------
(* Whitespace of the reference document from_dict builds.                  *)

\* What the bundle holds for a legacy field name: at top level, or in its
\* token_annotation; <<>> when it holds nothing usable.
Supplied(key) ==
    LET bundle == Val(example_dict)
        top == GetOr(bundle, key, <<>>)
    IN  IF top # <<>> THEN top
        ELSE GetOr(GetOr(bundle, "token_annotation", <<>>), key, <<>>)

\* The raw text at hand: the bundle's text or raw entry, else the text of
\* the predicted document.
RawText ==
    IF Supplied("text") # <<>> THEN Supplied("text")
    ELSE IF Supplied("raw") # <<>> THEN Supplied("raw")
    ELSE DocText(x)

\* C13: a bundle that supplies the words but no usable spaces is built into
\* a reference document whose trailing-whitespace flags are those guessed
\* from the raw text (the bundle's text or raw entry, else the predicted
\* document's text) and the words.
C13_SpacesGuessedFromRawText ==
    (/\ out.op = "from_dict"
     /\ example_dict # None
     /\ ~Has(Val(example_dict), "foo")
     /\ Supplied("words") # <<>>
     /\ Supplied("spaces") = <<>>)
        => /\ out.err = ""
           /\ out.val.spaces = _guess_spaces(RawText, Supplied("words"))

-----------------------------------------------------------------------------
(* The round trip of Example.to_dict and Example.from_dict under           *)
(* SpecLegacy.                                                             *)

\* from_dict was handed the bundle to_dict had just returned.
Reimported == out.op = "from_dict" /\ out.arg = "to_dict"

\* C14: the bundle to_dict exports can be given back to from_dict, which
\* builds an Example from it, and exporting that Example again gives an
\* equal bundle: from_dict(to_dict(e)).to_dict() = to_dict(e).
C14_ExportRoundTrips ==
    /\ Reimported => out.err = ""
    /\ (out.op = "to_dict" /\ Has(Val(example_dict), "token_annotation")
        /\ Has(Get(Val(example_dict), "token_annotation"), "ids"))
       => out.val = Val(example_dict)

-----------------------------------------------------------------------------
(* split_sents of an Example whose reference has no sentence boundaries,   *)
(* under SpecAlign.                                                        *)

\* The step returned [self]: the one element of the result is the Example
\* itself, with its whole predicted and reference documents, and the step
\* changed neither the documents nor the cached alignment.
SelfReturned ==
    /\ out'.err = "" /\ out'.arg = "self"
    /\ out'.val = <<[pred |-> <<1, Len(x)>>, ref |-> <<1, Len(y)>>]>>
    /\ UNCHANGED <<x, y, _alignment, nComputed>>

SplitStep == out'.op \in {"split_sents", "NewExample.split_sents"}

\* No token of the document is marked as a sentence start or as a
\* non-start.
Unmarked(doc) == \A i \in 1..Len(doc) : doc[i].sent_start = 0

\* Doc.is_sentenced is false: the document has two or more tokens and none
\* after the first is marked.
NotSentenced(doc) ==
    Len(doc) >= 2 /\ \A i \in 2..Len(doc) : doc[i].sent_start = 0

-----------------------------------------------------------------------------
(* The ENT_IOB column of a token bundle handed to annotations2doc, under   *)
(* SpecEncode.                                                             *)

\* The ENT_IOB column of the built document, each cell read as an integer.
EntIobColumn(doc) ==
    LET a == CHOOSE c \in 1..Len(doc.attrs) : doc.attrs[c] = "ENT_IOB"
    IN  [i \in 1..Len(doc.array) |-> Int64(doc.array[i][a])]

\* list.index(v) in the enumeration, 0-based.
IobIndex(v) == (CHOOSE k \in 1..Len(iob_strings) : iob_strings[k] = v) - 1

InEnumeration(tags) ==
    \A k \in 1..Len(tags) : \E e \in 1..Len(iob_strings) : iob_strings[e] = tags[k]

\* C16: an ENT_IOB column is accepted only when every raw tag is one of
\* "", "I", "O", "B", and is then stored as the tags' positions in that
\* enumeration; a tag outside the enumeration makes encoding fail with the
\* unknown-tag error E985 and no document is built.
C16_EntIobOutsideEnumerationRejected ==
    (Built /\ Has(tok_annot, "ENT_IOB"))
        => LET tags == Get(tok_annot, "ENT_IOB")
           IN  IF InEnumeration(tags)
               THEN /\ out.err = ""
                    /\ EntIobColumn(out.val) = [k \in 1..Len(tags) |-> IobIndex(tags[k])]
               ELSE out.err = "E985"

-----------------------------------------------------------------------------
(* _guess_spaces (part_000 lines 402-417) run one iteration of its loop at *)
(* a time, as _fix_legacy_dict_data line 326 calls it on                   *)
(* example_dict["text"] and token_dict["ORTH"].  out.val holds the locals  *)
(* spaces and text_pos.                                                    *)

\* Most characters of the text and most words of the list.
MaxGuessChars == 3
MaxGuessWords == 2

GuessAlphabet == {"a", " "}
GuessWordPool == {<<>>, <<"a">>, <<"b">>, <<"a", "a">>}

GuessText == Get(Val(example_dict), "text")
GuessWords == Get(tok_annot, "ORTH")

\* The locals after lines 403-404, or as the last iteration left them.
GuessLocals ==
    IF out.op = "" THEN [spaces |-> <<>>, text_pos |-> 0] ELSE out.val

InitGuess ==
    \E n \in 0..MaxGuessChars, m \in 0..MaxGuessWords :
    \E text \in [1..n -> GuessAlphabet], words \in [1..m -> GuessWordPool] :
        /\ example_dict = Some(<< <<"text", text>> >>)
        /\ tok_annot = << <<"ORTH", words>> >>
        /\ doc_annot = <<>>
        /\ x = <<>> /\ y = <<>>
        /\ _alignment = None
        /\ nComputed = 0
        /\ out = NoOut

\* One iteration of the for loop, lines 406-416.
GuessWord ==
    /\ out.op = "" \/ out.arg = "loop"
    /\ Len(GuessLocals.spaces) < Len(GuessWords)
    /\ LET word == GuessWords[Len(GuessLocals.spaces) + 1]
           text_pos == GuessLocals.text_pos
           word_start == FindFrom(GuessText, word, text_pos)
           pos == text_pos + Val(word_start) + Len(word)
       IN  out' = Result("_guess_spaces", "loop",
                     Ok(IF word_start = None
                        THEN [spaces |-> Append(GuessLocals.spaces, TRUE),
                              text_pos |-> text_pos]
                        ELSE [spaces |-> Append(GuessLocals.spaces,
                                            pos < Len(GuessText)
                                            /\ GuessText[pos + 1] = " "),
                              text_pos |-> pos]))
    /\ UNCHANGED <<x, y, _alignment, nComputed, tok_annot, doc_annot,
                   example_dict>>

\* return spaces, line 417
GuessReturn ==
    /\ out.op = "" \/ out.arg = "loop"
    /\ Len(GuessLocals.spaces) >= Len(GuessWords)
    /\ out' = Result("_guess_spaces", "return", Ok(GuessLocals))
    /\ UNCHANGED <<x, y, _alignment, nComputed, tok_annot, doc_annot,
                   example_dict>>

NextGuess == GuessWord \/ GuessReturn

\* The loop is sequential code: an iteration that can run does run.
SpecGuess == InitGuess /\ [][NextGuess]_vars /\ WF_vars(NextGuess)

\* word occurs in text at the 0-based offset p
OccursAt(text, word, p) ==
    /\ p + Len(word) <= Len(text)
    /\ \A j \in 1..Len(word) : text[p + j] = word[j]

\* The iteration for the next word leaves the cursor alone and appends
\* true when the word does not occur at or after the cursor; else it moves
\* the cursor just past the first such occurrence and appends whether the
\* character at the cursor is a space.
GuessedByRule ==
    LET text == GuessText
        word == GuessWords[Len(GuessLocals.spaces) + 1]
        cursor == GuessLocals.text_pos
        occ == {p \in cursor..Len(text) : OccursAt(text, word, p)}
    IN  /\ Len(GuessLocals.spaces) < Len(GuessWords)
        /\ IF occ = {}
           THEN /\ out'.val.text_pos = cursor
                /\ out'.val.spaces = Append(GuessLocals.spaces, TRUE)
           ELSE \E p \in occ :
                  /\ \A q \in occ : p <= q
                  /\ out'.val.text_pos = p + Len(word)
                  /\ out'.val.text_pos >= cursor
                  /\ out'.val.spaces =
                        Append(GuessLocals.spaces,
                               /\ out'.val.text_pos < Len(text)
                               /\ text[out'.val.text_pos + 1] = " ")

\* _guess_spaces has returned one flag per word.
GuessReturned ==
    /\ out.op = "_guess_spaces" /\ out.arg = "return"
    /\ Len(out.val.spaces) = Len(GuessWords)

\* C17: whitespace guessing terminates with exactly one flag per word, in
\* word order; every iteration follows the forward-cursor rule (the word is
\* not found at or after the cursor: flag true, cursor unchanged; found:
\* the cursor moves just past the first occurrence and the flag says
\* whether a single space is at the cursor), and the return changes
\* neither the flags nor the cursor.
C17_GuessTerminatesWithForwardCursor ==
    /\ [][IF out'.arg = "loop" THEN GuessedByRule
          ELSE out'.val = GuessLocals]_vars
    /\ <>GuessReturned

\* C17 witness: for the text "a a" and the words "a", "b", "a" is found at
\* the cursor and followed by a space, "b" is not found; the flags returned
\* are true, true and the cursor stayed at 1.
C17_Witness ==
    /\ GuessReturned
    /\ GuessText = <<"a", " ", "a">>
    /\ GuessWords = << <<"a">>, <<"b">> >>
    /\ out.val = [spaces |-> <<TRUE, TRUE>>, text_pos |-> 1]

=============================================================================
